---- MODULE Spec2Model ----
(***************************************************************************)
(* Model of the session / background-job lifecycle of src/app.py (a Flask  *)
(* application): the routes /, /upload, /ask, /status, /messages and the   *)
(* three background jobs process_pdf_file, process_video_file and          *)
(* generate_answer, which all share the dictionaries chat_sessions and     *)
(* processing_status without any lock.                                     *)
(*                                                                         *)
(* Every request handler and every background job is a thread.  A thread   *)
(* advances by atomic steps; each step holds at most one access to the     *)
(* shared dictionaries (purely local computation, such as a collaborator   *)
(* call, is merged with the shared access that follows it).  The running   *)
(* threads form a bag: two threads at the same place with the same locals  *)
(* are told apart by nothing in the program.                               *)
(*                                                                         *)
(* Strings that the program builds (status strings, error texts, message   *)
(* contents) are sequences of tokens, so that "contains the word Error"    *)
(* is decided by the tokens the code puts there.  File names are the       *)
(* sequences of their dot-separated parts.                                 *)
(***************************************************************************)
EXTENDS Integers, Sequences, FiniteSets, Bags, TLC

VARIABLES chat_sessions, processing_status, threads, requests, last, lookup

vars == <<chat_sessions, processing_status, threads, requests, last, lookup>>

(***************************************************************************)
(* Bounds and input domains.                                               *)
(***************************************************************************)
\* Total number of /upload and /ask requests issued in one behaviour.
MaxRequests == 3

\* Session tokens (uuid4 strings in the program).  Every access of the program
\* to chat_sessions and processing_status is keyed by the token of the request
\* or job, so sessions do not interact and one token shows every behaviour.
Sessions == {"s1"}

\* Texts a PDF extractor may return; "" is a PDF without a text layer.
Texts == {"", "t2"}

\* Results of model.transcribe: a dict with "text" and "segments"; the first
\* is the result for a recording without speech.
Transcriptions ==
    { [text |-> "", segments |-> <<>>],
      [text |-> "t1", segments |-> <<[start |-> 0, end |-> 10, text |-> "t1"]>>] }

\* Question texts of the /ask JSON body ("" also stands for a missing key).
Questions == {"", "q1"}

\* Answers of the chat collaborator.
Answers == {"a1"}

\* Texts of the exceptions the collaborators raise (str(e)), as tokens.
Errs == {<<"boom">>}

\* request.files without 'file'.
NoFile == <<"<nofile>">>

\* Uploaded file names, as dot-separated parts: "", "doc.pdf", "clip.MP4",
\* "notes.txt", ".pdf".
Filenames ==
    { <<"">>, <<"doc", "pdf">>, <<"clip", "MP4">>, <<"notes", "txt">>, <<"", "pdf">> }

(***************************************************************************)
(* Pure helpers of upload_file.                                            *)
(***************************************************************************)
RECURSIVE StripDots(_)
\* werkzeug's secure_filename on a name made of safe characters: what is
\* left is the name without leading and trailing dots.
StripDots(parts) ==
    IF parts = <<>> THEN <<>>
    ELSE IF Head(parts) = "" THEN StripDots(Tail(parts))
    ELSE IF parts[Len(parts)] = "" THEN StripDots(SubSeq(parts, 1, Len(parts) - 1))
    ELSE parts

secure_filename(parts) == StripDots(parts)

\* str.lower on the extensions of the model.
Lower(x) ==
    CASE x = "MP4" -> "mp4"
      [] x = "PDF" -> "pdf"
      [] OTHER -> x

\* filename.rsplit('.', 1)[1].lower(); "<IndexError>" when the name has no dot.
file_extension(filename) ==
    IF Len(filename) >= 2 THEN Lower(filename[Len(filename)]) ELSE "<IndexError>"

VideoExtensions == {"mp4", "mov", "avi", "mkv"}

(***************************************************************************)
(* Strings of the program.                                                 *)
(***************************************************************************)
StProcessing == <<"Processing", "your", "file...">>
StFileOk == <<"File", "processed", "successfully.", "You", "can", "now", "ask", "questions.">>
StGenerating == <<"Generating", "answer...">>
StAnswerOk == <<"Answer", "generated", "successfully.">>
StErrPdf(e) == <<"Error", "processing", "PDF:">> \o e
StErrVideo(e) == <<"Error", "processing", "video:">> \o e
StErrAnswer(e) == <<"Error", "generating", "answer:">> \o e
Apology(e) ==
    <<"Sorry,", "I", "encountered", "an", "error", "while", "processing", "your",
      "question:">> \o e

\* utils/whisper_transcribe.py: a failure of model.transcribe is re-raised.
TranscribeError(e) == <<"Failed", "to", "transcribe", "audio:">> \o e

Contains(str, word) == \E i \in 1..Len(str) : str[i] = word

(***************************************************************************)
(* Threads.                                                                *)
(***************************************************************************)
\* The threads that have started and not returned.
Threads == BagToSet(threads)

Thread(pc, s, filename, question, text, segments, err) ==
    [pc |-> pc, session_id |-> s, filename |-> filename, question |-> question,
     text |-> text, segments |-> segments, err |-> err]

At(r, pc) == r \in Threads /\ r.pc = pc

\* threading.Thread(...).start(), or the server taking up a request.
Spawn(r) == threads (+) SetToBag({r})

\* Thread r moves on and is now r2.
Step(r, r2) == (threads (-) SetToBag({r})) (+) SetToBag({r2})

\* Thread r returns.
Exit(r) == threads (-) SetToBag({r})

Goto(r, pc) == Step(r, [r EXCEPT !.pc = pc])

Response(op, s, code, body) ==
    [op |-> op, session_id |-> s, code |-> code, body |-> body]

HandlerPcs == {"u_status", "u_dispatch", "a_check", "a_flag", "a_start"}
PdfPcs == {"p_extract", "p_ok", "p_finally"}
VideoPcs == {"v_extract", "v_segs", "v_ok", "v_err", "v_finally"}
AnswerPcs == {"g_read", "g_chat", "g_ok", "g_apology", "g_finally"}
JobPcs == PdfPcs \cup VideoPcs \cup AnswerPcs

is_processing(s) == chat_sessions[s].is_processing
extracted_text(s) == chat_sessions[s].extracted_text
messages(s) == chat_sessions[s].messages

(***************************************************************************)
(* The timestamp lookup helper (lines 159-186), a pure function that no    *)
(* route calls.  Its strings are token sequences: a decimal number is the  *)
(* sequence of its digits, and the separators the code writes ("[", "]",   *)
(* ":", " ", "\n", ".") are tokens of their own.                           *)
(***************************************************************************)
\* Longest segment sequence given to the lookup.
MaxSegments == 2

\* window_seconds=30, the default of line 159.
DefaultWindow == 30

\* Segments as the transcriber reports them: start and end in seconds.
SegmentPool ==
    { [start |-> 0,    end |-> 10,   text |-> "a"],
      [start |-> 20,   end |-> 30,   text |-> "b"],
      [start |-> 35,   end |-> 36,   text |-> "d"],
      [start |-> 3661, end |-> 3670, text |-> "c"] }

SegmentSeqs == UNION { [1..n -> SegmentPool] : n \in 0..MaxSegments }

Targets == {-5, 5, 25, 1000, 3665}

Windows == {0, 5, DefaultWindow}

Digits == <<"0", "1", "2", "3", "4", "5", "6", "7", "8", "9">>

\* str(n) for n >= 0.
RECURSIVE Decimal(_)
Decimal(n) ==
    IF n < 10 THEN <<Digits[n + 1]>>
    ELSE Decimal(n \div 10) \o <<Digits[(n % 10) + 1]>>

\* f"{n:02d}": zero-padded to two characters, the sign counting as one.
Format02d(n) ==
    IF n < 0 THEN <<"-">> \o Decimal(-n)
    ELSE IF n < 10 THEN <<"0">> \o Decimal(n)
    ELSE Decimal(n)

\* format_timestamp with the minutes taken from all the seconds: line 184
\* without "% 3600".
format_timestamp_minutes_of_total(seconds) ==
    LET hours == seconds \div 3600
        minutes == seconds \div 60
        secs == seconds % 60
    IN  Format02d(hours) \o <<":">> \o Format02d(minutes) \o <<":">> \o Format02d(secs)

\* Lines 181-186 (// is floor division and % is non-negative, as \div and %).
format_timestamp(seconds) ==
    LET hours == seconds \div 3600
        minutes == (seconds % 3600) \div 60
        secs == seconds % 60
    IN  Format02d(hours) \o <<":">> \o Format02d(minutes) \o <<":">> \o Format02d(secs)

abs(x) == IF x < 0 THEN -x ELSE x

\* Lines 165-174: the loop that collects context_text, one line per
\* qualifying segment.
RECURSIVE context_text(_, _, _)
context_text(segments, target_seconds, window_seconds) ==
    IF segments = <<>> THEN <<>>
    ELSE LET segment == Head(segments)
             start == segment.start
             end == segment.end
             rest == context_text(Tail(segments), target_seconds, window_seconds)
         IN  IF \/ start <= target_seconds /\ target_seconds <= end
                \/ abs(start - target_seconds) <= window_seconds
             THEN <<(<<"[">> \o format_timestamp(start) \o <<"]", " ", segment.text>>)>>
                      \o rest
             ELSE rest

\* "\n".join(lines), line 179.
RECURSIVE Join(_)
Join(lines) ==
    IF Len(lines) = 1 THEN lines[1]
    ELSE lines[1] \o <<"\n">> \o Join(Tail(lines))

\* Lines 159-179.
find_text_around_timestamp(segments, target_seconds, window_seconds) ==
    IF segments = <<>>
    THEN <<"No timestamp information available.">>
    ELSE LET lines == context_text(segments, target_seconds, window_seconds)
         IN  IF lines = <<>>
             THEN <<"No content found around timestamp", " ">>
                      \o format_timestamp(target_seconds) \o <<".">>
             ELSE Join(lines)

\* No lookup is in progress (no route calls the helper).
NoLookup ==
    [segments |-> <<>>, target_seconds |-> 0, window_seconds |-> DefaultWindow,
     result |-> <<>>]

Init ==
    /\ chat_sessions = <<>>
    /\ processing_status = <<>>
    /\ threads = EmptyBag
    /\ requests = 0
    /\ last = Response("none", "", 0, "")
    /\ lookup = NoLookup

(***************************************************************************)
(* GET / : index.                                                          *)
(***************************************************************************)
Index(s) ==
    /\ s \notin DOMAIN chat_sessions
    /\ chat_sessions' =
         (s :> [messages |-> <<>>, extracted_text |-> "", is_processing |-> FALSE])
            @@ chat_sessions
    /\ UNCHANGED <<processing_status, threads, requests, last, lookup>>

(***************************************************************************)
(* Shared-state updates used by the steps below.                           *)
(***************************************************************************)
SetProcessing(s, b) == [chat_sessions EXCEPT ![s].is_processing = b]

SetText(s, text) == [chat_sessions EXCEPT ![s].extracted_text = text]

SetSegments(s, segments) ==
    [chat_sessions EXCEPT ![s] = ("segments" :> segments) @@ chat_sessions[s]]

AppendMessage(s, role, content) ==
    [chat_sessions EXCEPT ![s].messages = Append(@, [role |-> role, content |-> content])]

SetStatus(s, text) == (s :> text) @@ processing_status

\* A request that is answered in its first step: it never becomes a thread
\* of the model.
Answered(op, s, code, body) ==
    /\ threads' = threads
    /\ last' = Response(op, s, code, body)

\* Thread r returns the response of its handler.
Return(r, op, code, body) ==
    /\ threads' = Exit(r)
    /\ last' = Response(op, r.session_id, code, body)

\* threading.Thread(target=..., args=(session_id, ...)).start() followed by the
\* handler's return: the handler's thread record becomes the job's.
StartJob(r, op, pc, body) ==
    /\ threads' = Goto(r, pc)
    /\ last' = Response(op, r.session_id, 200, body)

\* A background job returns.
Finish(r, job) ==
    /\ threads' = Exit(r)
    /\ last' = Response(job, r.session_id, 0,
                        IF r.err = <<>> THEN "success" ELSE "failure")

(***************************************************************************)
(* POST /upload : upload_file.                                             *)
(***************************************************************************)
\* Lines 32-44: the three validations, then is_processing = True.  A client
\* holds the token s once it has visited / (Index), so s outside chat_sessions
\* is a request without session_id.
UploadBegin(s, f) ==
    /\ requests < MaxRequests
    /\ requests' = requests + 1
    /\ UNCHANGED lookup
    /\ IF f = NoFile
       THEN /\ Answered("upload", s, 400, "No file provided")
            /\ UNCHANGED <<chat_sessions, processing_status>>
       ELSE IF f = <<"">>
       THEN /\ Answered("upload", s, 400, "No file selected")
            /\ UNCHANGED <<chat_sessions, processing_status>>
       ELSE IF s \notin DOMAIN chat_sessions
       THEN /\ Answered("upload", s, 400, "Session expired")
            /\ UNCHANGED <<chat_sessions, processing_status>>
       ELSE /\ chat_sessions' = SetProcessing(s, TRUE)
            /\ threads' = Spawn(Thread("u_status", s, f, "", "", <<>>, <<>>))
            /\ UNCHANGED <<processing_status, last>>

\* Line 45.
UploadStatus(r) ==
    /\ At(r, "u_status")
    /\ UNCHANGED <<requests, lookup>>
    /\ processing_status' = SetStatus(r.session_id, StProcessing)
    /\ threads' = Goto(r, "u_dispatch")
    /\ UNCHANGED <<chat_sessions, last>>

\* Lines 80-82: the handler's except clause.
UploadFails(r, body) ==
    /\ chat_sessions' = SetProcessing(r.session_id, FALSE)
    /\ Return(r, "upload", 500, body)
    /\ UNCHANGED processing_status

\* Lines 74-76: the else branch of the dispatch.
UploadUnsupported(r) ==
    /\ chat_sessions' = SetProcessing(r.session_id, FALSE)
    /\ Return(r, "upload", 400, "Unsupported file type")
    /\ UNCHANGED processing_status

\* Lines 53-61 and 64-72: file.save, which may raise, then the thread start.
UploadLaunch(r, pc) ==
    \/ /\ StartJob(r, "upload", pc, "File uploaded successfully. Processing...")
       /\ UNCHANGED <<chat_sessions, processing_status>>
    \/ UploadFails(r, "save failed")

\* Lines 47-82.
UploadDispatch(r) ==
    /\ At(r, "u_dispatch")
    /\ UNCHANGED <<requests, lookup>>
    /\ LET ext == file_extension(secure_filename(r.filename))
       IN  IF ext = "<IndexError>" THEN UploadFails(r, "list index out of range")
           ELSE IF ext = "pdf" THEN UploadLaunch(r, "p_extract")
           ELSE IF ext \in VideoExtensions THEN UploadLaunch(r, "v_extract")
           ELSE UploadUnsupported(r)

(***************************************************************************)
(* Background job process_pdf_file.                                        *)
(***************************************************************************)
\* Lines 86-87, or 86 and 90 when process_pdf raises.
PdfExtract(r) ==
    /\ At(r, "p_extract")
    /\ UNCHANGED <<requests, lookup>>
    /\ \/ \E text \in Texts :
            /\ chat_sessions' = SetText(r.session_id, text)
            /\ threads' = Goto(r, "p_ok")
            /\ UNCHANGED <<processing_status, last>>
       \/ \E e \in Errs :
            /\ processing_status' = SetStatus(r.session_id, StErrPdf(e))
            /\ threads' = Step(r, [r EXCEPT !.pc = "p_finally", !.err = e])
            /\ UNCHANGED <<chat_sessions, last>>

\* Line 88.
PdfOk(r) ==
    /\ At(r, "p_ok")
    /\ UNCHANGED <<requests, lookup>>
    /\ processing_status' = SetStatus(r.session_id, StFileOk)
    /\ threads' = Goto(r, "p_finally")
    /\ UNCHANGED <<chat_sessions, last>>

\* Lines 91-92.
PdfFinally(r) ==
    /\ At(r, "p_finally")
    /\ UNCHANGED <<requests, lookup>>
    /\ chat_sessions' = SetProcessing(r.session_id, FALSE)
    /\ Finish(r, "process_pdf_file")
    /\ UNCHANGED processing_status

(***************************************************************************)
(* Background job process_video_file.                                      *)
(***************************************************************************)
\* transcription_result.get("segments", []).
GetSegments(result) ==
    IF "segments" \in DOMAIN result THEN result.segments ELSE <<>>

\* Lines 97-109: audio extraction and transcription, then the store of the
\* text; or line 118 when one of the two collaborators raises.
VideoExtract(r) ==
    /\ At(r, "v_extract")
    /\ UNCHANGED <<requests, lookup>>
    /\ \/ \E result \in Transcriptions :
            /\ chat_sessions' = SetText(r.session_id, result.text)
            /\ threads' = Step(r, [r EXCEPT !.pc = "v_segs",
                                                 !.text = result.text,
                                                 !.segments = GetSegments(result)])
            /\ UNCHANGED <<processing_status, last>>
       \/ \E e \in Errs, step \in {"audio", "transcribe"} :
            LET err == IF step = "audio" THEN e ELSE TranscribeError(e)
            IN  /\ processing_status' = SetStatus(r.session_id, StErrVideo(err))
                /\ threads' = Step(r, [r EXCEPT !.pc = "v_finally", !.err = err])
                /\ UNCHANGED <<chat_sessions, last>>

\* Line 110.
VideoSegments(r) ==
    /\ At(r, "v_segs")
    /\ UNCHANGED <<requests, lookup>>
    /\ chat_sessions' = SetSegments(r.session_id, r.segments)
    /\ threads' = Goto(r, "v_ok")
    /\ UNCHANGED <<processing_status, last>>

\* Lines 112-115: the success status, then os.remove, which may raise.
VideoOk(r) ==
    /\ At(r, "v_ok")
    /\ UNCHANGED <<requests, lookup>>
    /\ processing_status' = SetStatus(r.session_id, StFileOk)
    /\ \/ threads' = Goto(r, "v_finally")
       \/ \E e \in Errs : threads' = Step(r, [r EXCEPT !.pc = "v_err", !.err = e])
    /\ UNCHANGED <<chat_sessions, last>>

\* Line 118, reached from os.remove.
VideoErr(r) ==
    /\ At(r, "v_err")
    /\ UNCHANGED <<requests, lookup>>
    /\ processing_status' = SetStatus(r.session_id, StErrVideo(r.err))
    /\ threads' = Goto(r, "v_finally")
    /\ UNCHANGED <<chat_sessions, last>>

\* The flag cleared at the end of the try block instead of in finally.
VideoFinallyOnSuccess(r) ==
    /\ At(r, "v_finally")
    /\ UNCHANGED <<requests, lookup>>
    /\ chat_sessions' = IF r.err = <<>>
                        THEN SetProcessing(r.session_id, FALSE)
                        ELSE chat_sessions
    /\ Finish(r, "process_video_file")
    /\ UNCHANGED processing_status

\* Lines 119-120.
VideoFinally(r) ==
    /\ At(r, "v_finally")
    /\ UNCHANGED <<requests, lookup>>
    /\ chat_sessions' = SetProcessing(r.session_id, FALSE)
    /\ Finish(r, "process_video_file")
    /\ UNCHANGED processing_status

(***************************************************************************)
(* POST /ask : ask_question.                                               *)
(***************************************************************************)
\* ask_question without the check of line 128.
AskBeginNoBusyCheck(s, q) ==
    /\ requests < MaxRequests
    /\ requests' = requests + 1
    /\ UNCHANGED lookup
    /\ IF s \notin DOMAIN chat_sessions
       THEN /\ Answered("ask", s, 400, "Session expired")
            /\ UNCHANGED <<chat_sessions, processing_status>>
       ELSE /\ threads' = Spawn(Thread("a_check", s, <<>>, q, "", <<>>, <<>>))
            /\ UNCHANGED <<chat_sessions, processing_status, last>>

\* Lines 124-129.
AskBegin(s, q) ==
    /\ requests < MaxRequests
    /\ requests' = requests + 1
    /\ UNCHANGED lookup
    /\ IF s \notin DOMAIN chat_sessions
       THEN /\ Answered("ask", s, 400, "Session expired")
            /\ UNCHANGED <<chat_sessions, processing_status>>
       ELSE IF is_processing(s)
       THEN /\ Answered("ask", s, 400, "System is still processing your file")
            /\ UNCHANGED <<chat_sessions, processing_status>>
       ELSE /\ threads' = Spawn(Thread("a_check", s, <<>>, q, "", <<>>, <<>>))
            /\ UNCHANGED <<chat_sessions, processing_status, last>>

\* ask_question with the checks of lines 134 and 137 exchanged.
AskCheckDocumentFirst(r) ==
    /\ At(r, "a_check")
    /\ UNCHANGED <<requests, lookup>>
    /\ IF extracted_text(r.session_id) = ""
       THEN /\ Return(r, "ask", 400,
                      "No document content available. Please upload a file first.")
            /\ UNCHANGED <<chat_sessions, processing_status>>
       ELSE IF r.question = ""
       THEN /\ Return(r, "ask", 400, "No question provided")
            /\ UNCHANGED <<chat_sessions, processing_status>>
       ELSE /\ chat_sessions' =
                 AppendMessage(r.session_id, "user", <<r.question>>)
            /\ threads' = Goto(r, "a_flag")
            /\ UNCHANGED <<processing_status, last>>

\* ask_question without the check of line 137.
AskCheckNoDocumentCheck(r) ==
    /\ At(r, "a_check")
    /\ UNCHANGED <<requests, lookup>>
    /\ IF r.question = ""
       THEN /\ Return(r, "ask", 400, "No question provided")
            /\ UNCHANGED <<chat_sessions, processing_status>>
       ELSE /\ chat_sessions' =
                 AppendMessage(r.session_id, "user", <<r.question>>)
            /\ threads' = Goto(r, "a_flag")
            /\ UNCHANGED <<processing_status, last>>

\* Lines 131-144.
AskCheck(r) ==
    /\ At(r, "a_check")
    /\ UNCHANGED <<requests, lookup>>
    /\ IF r.question = ""
       THEN /\ Return(r, "ask", 400, "No question provided")
            /\ UNCHANGED <<chat_sessions, processing_status>>
       ELSE IF extracted_text(r.session_id) = ""
       THEN /\ Return(r, "ask", 400,
                      "No document content available. Please upload a file first.")
            /\ UNCHANGED <<chat_sessions, processing_status>>
       ELSE /\ chat_sessions' =
                 AppendMessage(r.session_id, "user", <<r.question>>)
            /\ threads' = Goto(r, "a_flag")
            /\ UNCHANGED <<processing_status, last>>

\* Line 147.
AskFlag(r) ==
    /\ At(r, "a_flag")
    /\ UNCHANGED <<requests, lookup>>
    /\ chat_sessions' = SetProcessing(r.session_id, TRUE)
    /\ threads' = Goto(r, "a_start")
    /\ UNCHANGED <<processing_status, last>>

\* Lines 148-157.
AskStart(r) ==
    /\ At(r, "a_start")
    /\ UNCHANGED <<requests, lookup>>
    /\ processing_status' = SetStatus(r.session_id, StGenerating)
    /\ StartJob(r, "ask", "g_read", "Question received. Processing...")
    /\ UNCHANGED chat_sessions

(***************************************************************************)
(* Background job generate_answer.                                         *)
(***************************************************************************)
\* Line 190.
AnswerRead(r) ==
    /\ At(r, "g_read")
    /\ UNCHANGED <<requests, lookup>>
    /\ threads' = Step(r, [r EXCEPT !.pc = "g_chat",
                                         !.text = extracted_text(r.session_id)])
    /\ UNCHANGED <<chat_sessions, processing_status, last>>

\* Lines 206-216, or 206 and 221 when ollama.chat raises.
AnswerChat(r) ==
    /\ At(r, "g_chat")
    /\ UNCHANGED <<requests, lookup>>
    /\ \/ \E a \in Answers :
            /\ chat_sessions' = AppendMessage(r.session_id, "assistant", <<a>>)
            /\ threads' = Goto(r, "g_ok")
            /\ UNCHANGED <<processing_status, last>>
       \/ \E e \in Errs :
            /\ processing_status' = SetStatus(r.session_id, StErrAnswer(e))
            /\ threads' = Step(r, [r EXCEPT !.pc = "g_apology", !.err = e])
            /\ UNCHANGED <<chat_sessions, last>>

\* generate_answer whose line 218 raises: the except clause runs after the
\* answer was appended.
AnswerOkRaises(r) ==
    /\ At(r, "g_ok")
    /\ UNCHANGED <<requests, lookup>>
    /\ \E e \in Errs :
            /\ processing_status' = SetStatus(r.session_id, StErrAnswer(e))
            /\ threads' = Step(r, [r EXCEPT !.pc = "g_apology", !.err = e])
    /\ UNCHANGED <<chat_sessions, last>>

\* Line 218.
AnswerOk(r) ==
    /\ At(r, "g_ok")
    /\ UNCHANGED <<requests, lookup>>
    /\ processing_status' = SetStatus(r.session_id, StAnswerOk)
    /\ threads' = Goto(r, "g_finally")
    /\ UNCHANGED <<chat_sessions, last>>

\* generate_answer whose except clause only sets the status.
AnswerApologyStatusOnly(r) ==
    /\ At(r, "g_apology")
    /\ UNCHANGED <<requests, lookup>>
    /\ threads' = Goto(r, "g_finally")
    /\ UNCHANGED <<chat_sessions, processing_status, last>>

\* Lines 224-227.
AnswerApology(r) ==
    /\ At(r, "g_apology")
    /\ UNCHANGED <<requests, lookup>>
    /\ chat_sessions' =
         AppendMessage(r.session_id, "assistant", Apology(r.err))
    /\ threads' = Goto(r, "g_finally")
    /\ UNCHANGED <<processing_status, last>>

\* Lines 229-230.
AnswerFinally(r) ==
    /\ At(r, "g_finally")
    /\ UNCHANGED <<requests, lookup>>
    /\ chat_sessions' = SetProcessing(r.session_id, FALSE)
    /\ Finish(r, "generate_answer")
    /\ UNCHANGED processing_status

(***************************************************************************)
(* GET /status and GET /messages: reads of the shared dictionaries.        *)
(***************************************************************************)
\* Lines 238-244, for a request that carries session token s (a request
\* without a token is answered 400 at line 236).
get_status(s) ==
    [status |-> IF s \in DOMAIN processing_status THEN processing_status[s]
                ELSE <<"Ready">>,
     is_processing |-> IF s \in DOMAIN chat_sessions THEN is_processing(s) ELSE FALSE]

\* Lines 249-254; <<"Session expired">> stands for the 400 response.
get_messages(s) ==
    IF s \notin DOMAIN chat_sessions THEN <<"Session expired">> ELSE messages(s)

(***************************************************************************)
(* The next-state relation.                                                *)
(***************************************************************************)
HandlerStep(r) ==
    \/ UploadStatus(r)
    \/ UploadDispatch(r)
    \/ AskCheck(r)
    \/ AskFlag(r)
    \/ AskStart(r)

JobStep(r) ==
    \/ PdfExtract(r)
    \/ PdfOk(r)
    \/ PdfFinally(r)
    \/ VideoExtract(r)
    \/ VideoSegments(r)
    \/ VideoOk(r)
    \/ VideoErr(r)
    \/ VideoFinally(r)
    \/ AnswerRead(r)
    \/ AnswerChat(r)
    \/ AnswerOk(r)
    \/ AnswerApology(r)
    \/ AnswerFinally(r)

\* Some started thread takes its next step.
Running == \E r \in Threads : HandlerStep(r) \/ JobStep(r)

Next ==
    \/ \E s \in Sessions : Index(s)
    \/ \E s \in Sessions, f \in Filenames \cup {NoFile} : UploadBegin(s, f)
    \/ \E r \in Threads : UploadStatus(r)
    \/ \E r \in Threads : UploadDispatch(r)
    \/ \E r \in Threads : PdfExtract(r)
    \/ \E r \in Threads : PdfOk(r)
    \/ \E r \in Threads : PdfFinally(r)
    \/ \E r \in Threads : VideoExtract(r)
    \/ \E r \in Threads : VideoSegments(r)
    \/ \E r \in Threads : VideoOk(r)
    \/ \E r \in Threads : VideoErr(r)
    \/ \E r \in Threads : VideoFinally(r)
    \/ \E s \in Sessions, q \in Questions : AskBegin(s, q)
    \/ \E r \in Threads : AskCheck(r)
    \/ \E r \in Threads : AskFlag(r)
    \/ \E r \in Threads : AskStart(r)
    \/ \E r \in Threads : AnswerRead(r)
    \/ \E r \in Threads : AnswerChat(r)
    \/ \E r \in Threads : AnswerOk(r)
    \/ \E r \in Threads : AnswerApology(r)
    \/ \E r \in Threads : AnswerFinally(r)

Spec == Init /\ [][Next]_vars

\* Every started thread keeps running: the interpreter schedules each thread
\* and every collaborator call returns or raises.
FairSpec == Spec /\ WF_vars(Running)

(***************************************************************************)
(* The lookup helper on its own: the arguments are drawn from the bounded  *)
(* domains above, and the one step is the call.                            *)
(***************************************************************************)
LookupInit ==
    /\ chat_sessions = <<>>
    /\ processing_status = <<>>
    /\ threads = EmptyBag
    /\ requests = 0
    /\ last = Response("none", "", 0, "")
    /\ lookup \in [segments : SegmentSeqs, target_seconds : Targets,
                   window_seconds : Windows, result : {<<>>}]

Lookup ==
    /\ lookup.result = <<>>
    /\ lookup' = [lookup EXCEPT !.result =
                    find_text_around_timestamp(lookup.segments, lookup.target_seconds,
                                               lookup.window_seconds)]
    /\ UNCHANGED <<chat_sessions, processing_status, threads, requests, last>>

LookupNext == Lookup

LookupSpec == LookupInit /\ [][LookupNext]_vars


(***************************************************************************)
(* Derived notions used by the properties.                                 *)
(***************************************************************************)
Created == DOMAIN chat_sessions

\* The running threads of session s whose place is in pcs, as a bag.
ThreadsOf(s, pcs) ==
    LET rs == {r \in Threads : r.pc \in pcs /\ r.session_id = s}
    IN  [r \in rs |-> threads[r]]

\* The number of background jobs of session s that were launched and have
\* not returned.
JobsInFlight(s) == BagCardinality(ThreadsOf(s, JobPcs))

\* The number of request handlers of session s that are between two of
\* their steps.
HandlersInFlight(s) == BagCardinality(ThreadsOf(s, HandlerPcs))

\* Thread r takes a step in this transition.
Moves(r) == CopiesIn(r, threads') < CopiesIn(r, threads)

\* The threads this transition starts or moves to their next place.
Arrived == {r \in BagToSet(threads') : CopiesIn(r, threads') > CopiesIn(r, threads)}

\* Thread r returns in this transition.
Returns(r) == Moves(r) /\ Arrived = {}

\* Job r returns in this transition.
JobReturns(r) == r.pc \in JobPcs /\ Returns(r)

Roles(s) == [i \in 1..Len(messages(s)) |-> messages(s)[i].role]

Count(s, role) == Cardinality({i \in 1..Len(messages(s)) : messages(s)[i].role = role})

(***************************************************************************)
(* Steps of the request handlers, recognised by what they leave behind.    *)
(***************************************************************************)
\* A request arrives in this transition and runs its first step.
Arrives == requests' = requests + 1

\* An /ask request of session s arrives and runs lines 124-129.
AskArrives(s) ==
    /\ Arrives
    /\ \/ \E r \in Arrived : r.pc = "a_check" /\ r.session_id = s
       \/ Arrived = {} /\ last'.op = "ask" /\ last'.session_id = s

\* The arriving /ask request is answered at once with this error.
AskRejected(s, body) ==
    /\ Arrived = {}
    /\ last' = Response("ask", s, 400, body)

Busy == "System is still processing your file"
MissingQuestion == "No question provided"
NoDocument == "No document content available. Please upload a file first."
SessionExpired == "Session expired"

\* The extensions upload_file dispatches on.
AllowedExtensions == {"pdf"} \cup VideoExtensions

\* The sanitised name has an extension, and it is not an allowed one.
UnsupportedFile(f) ==
    LET ext == file_extension(secure_filename(f))
    IN  ext # "<IndexError>" /\ ext \notin AllowedExtensions

\* Thread r is an /upload handler of a file with an unsupported extension.
UnsupportedUpload(r) ==
    /\ r.pc \in {"u_status", "u_dispatch"}
    /\ UnsupportedFile(r.filename)

(***************************************************************************)
(* C1: in every state in which no request handler of the session is in     *)
(* the middle of its run, is_processing is true if and only if some        *)
(* background job launched for the session has not returned.  (The states  *)
(* in the middle of a handler are left out, so that a violation does not   *)
(* rest on the interval between a handler's write of the flag and its      *)
(* start of the thread.)                                                   *)
(***************************************************************************)
C1_ProcessingIffJobInFlight ==
    \A s \in Created :
        HandlersInFlight(s) = 0 => (is_processing(s) <=> JobsInFlight(s) > 0)

(***************************************************************************)
(* C2: no state has two background jobs of the same session in flight,     *)
(* because a job is launched only when the previous one has cleared        *)
(* is_processing.                                                          *)
(***************************************************************************)
C2_OneJobPerSession ==
    \A s \in Created : JobsInFlight(s) <= 1

(***************************************************************************)
(* C3: every background job (process_pdf_file, process_video_file,         *)
(* generate_answer) clears is_processing of its session in the step in     *)
(* which it returns, on the success path and on every failure path; and,   *)
(* threads being scheduled and collaborators returning or raising          *)
(* (FairSpec), a session whose is_processing is true always reaches a      *)
(* state in which it is false (the requests of a behaviour are finitely    *)
(* many, so from some point on no further request is accepted).            *)
(***************************************************************************)
C3_ClearsOnExit ==
    [][\A r \in Threads :
          JobReturns(r) => ~chat_sessions'[r.session_id].is_processing]_vars

C3_EventuallyCleared ==
    \A s \in Sessions : get_status(s).is_processing ~> ~get_status(s).is_processing

\* C3: every job clears is_processing when it returns, and a set flag is
\* eventually cleared.
C3_JobsClearProcessing == C3_ClearsOnExit /\ C3_EventuallyCleared

\* A failed job has returned and the flag is clear.
C3_Witness ==
    /\ last.op \in {"process_pdf_file", "process_video_file", "generate_answer"}
    /\ last.body = "failure"
    /\ \A s \in Created : ~is_processing(s)

(***************************************************************************)
(* C4: an /ask request that runs its busy check (line 128) while           *)
(* is_processing of its session is true returns 400 with the "still        *)
(* processing" error in that same step and changes neither chat_sessions   *)
(* (messages, extracted_text, is_processing) nor processing_status,        *)
(* whatever the question.                                                  *)
(***************************************************************************)
C4_BusyAskRejected ==
    [][\A s \in Created :
          (is_processing(s) /\ AskArrives(s)) =>
              /\ AskRejected(s, Busy)
              /\ chat_sessions' = chat_sessions
              /\ processing_status' = processing_status]_vars

\* A busy /ask has been answered while a job of the session is in flight.
C4_Witness ==
    \E s \in Created :
        /\ last = Response("ask", s, 400, Busy)
        /\ is_processing(s)
        /\ JobsInFlight(s) > 0

(***************************************************************************)
(* C5: an /upload of a file whose extension is not pdf, mp4, mov, avi or   *)
(* mkv never sets is_processing to true in any of its steps, launches no   *)
(* job and returns 400.                                                    *)
(***************************************************************************)
C5_UnsupportedNeverProcessing ==
    [][/\ \A r \in Arrived :
            (Arrives /\ UnsupportedUpload(r))
            => (chat_sessions'[r.session_id].is_processing => is_processing(r.session_id))
       /\ \A r \in Threads :
            (UnsupportedUpload(r) /\ Moves(r))
            => /\ chat_sessions'[r.session_id].is_processing => is_processing(r.session_id)
               /\ \A r2 \in Arrived : r2.pc = "u_dispatch"
               /\ Returns(r) => last'.code = 400]_vars

(***************************************************************************)
(* C6: in the state reached by the step in which an extraction job         *)
(* (process_pdf_file or process_video_file) returns without having caught  *)
(* an exception, is_processing of its session is false and extracted_text  *)
(* is not empty.                                                           *)
(***************************************************************************)
ExtractionReturns(r) == r.pc \in {"p_finally", "v_finally"} /\ Returns(r)

\* C6: a successful extraction job returns with the flag clear and a
\* non-empty extracted_text.
C6_SuccessfulUploadHasText ==
    [][\A r \in Threads :
          (ExtractionReturns(r) /\ r.err = <<>>) =>
              /\ ~chat_sessions'[r.session_id].is_processing
              /\ chat_sessions'[r.session_id].extracted_text # ""]_vars

(***************************************************************************)
(* C7: in the state reached by the step in which an extraction job         *)
(* returns after having caught an exception, is_processing of its session  *)
(* is false and the status string of the session contains the word         *)
(* "Error".                                                                *)
(***************************************************************************)
\* C7: a failed extraction job returns with the flag clear and a status that
\* contains "Error".
C7_FailedUploadReportsError ==
    [][\A r \in Threads :
          (ExtractionReturns(r) /\ r.err # <<>>) =>
              /\ ~chat_sessions'[r.session_id].is_processing
              /\ r.session_id \in DOMAIN processing_status'
              /\ Contains(processing_status'[r.session_id], "Error")]_vars

(***************************************************************************)
(* C8: once the transcript of a session consists of one accepted question  *)
(* alone, it eventually (FairSpec: the answer job is scheduled and the     *)
(* chat collaborator returns or raises) consists of exactly two entries,   *)
(* the user entry with that question followed by one assistant entry,      *)
(* unless a further question is accepted first; and a transcript of one    *)
(* user entry followed by one assistant entry changes only by the append   *)
(* of the user entry of a further accepted question.                       *)
(***************************************************************************)
UserMessage(q) == [role |-> "user", content |-> <<q>>]

QuestionAnswered(s, q) ==
    /\ Len(messages(s)) = 2
    /\ messages(s)[1] = UserMessage(q)
    /\ messages(s)[2].role = "assistant"

C8_EventuallyAnswered ==
    \A s \in Sessions, q \in Questions :
        (s \in Created /\ messages(s) = <<UserMessage(q)>>)
            ~> (s \in Created /\ (QuestionAnswered(s, q) \/ Count(s, "user") >= 2))

C8_StaysAnswered ==
    [][\A s \in Created :
          (Len(messages(s)) = 2 /\ Roles(s) = <<"user", "assistant">>) =>
              \/ chat_sessions'[s].messages = messages(s)
              \/ /\ Len(chat_sessions'[s].messages) = 3
                 /\ SubSeq(chat_sessions'[s].messages, 1, 2) = messages(s)
                 /\ chat_sessions'[s].messages[3].role = "user"]_vars

\* C8: one accepted question eventually has exactly its one reply after it,
\* and the transcript then changes only by a further accepted question.
C8_QuestionGetsOneReply == C8_EventuallyAnswered /\ C8_StaysAnswered

\* The one question of a session has its reply, here the apology of a failed
\* chat call, and the answer job has returned.
C8_Witness ==
    \E s \in Created :
        /\ QuestionAnswered(s, "q1")
        /\ messages(s)[2].content = Apology(<<"boom">>)
        /\ last = Response("generate_answer", s, 0, "failure")
        /\ ~is_processing(s)

(***************************************************************************)
(* C9: in every state in which no request handler of the session is in     *)
(* the middle of its run and /status reports is_processing = false, the    *)
(* transcript holds as many assistant entries as user entries: every       *)
(* accepted question already has its reply.                                *)
(***************************************************************************)
C9_PollingSound ==
    \A s \in Created :
        (HandlersInFlight(s) = 0 /\ ~get_status(s).is_processing)
            => Count(s, "assistant") = Count(s, "user")

(***************************************************************************)
(* C10: /ask reports the first violated precondition in the order session  *)
(* exists, session not processing, question non-empty, extracted_text      *)
(* non-empty, each evaluated when the handler reaches it (lines 125, 128,  *)
(* 134, 137); the request goes on to the next check only when none of the  *)
(* earlier ones is violated, and its question is appended to the           *)
(* transcript only when none of the four is.                               *)
(***************************************************************************)
FirstViolated(exists, busy, question, text) ==
    IF ~exists THEN SessionExpired
    ELSE IF busy THEN Busy
    ELSE IF question = "" THEN MissingQuestion
    ELSE IF text = "" THEN NoDocument
    ELSE "none"

\* C10: /ask reports the first violated precondition, in the order of the
\* code, and accepts the question only when none is violated.
C10_AskPreconditionOrder ==
    [][/\ \A s \in Sessions :
            AskArrives(s) =>
                LET v == FirstViolated(s \in Created, s \in Created /\ is_processing(s),
                                       "any", "any")
                IN  IF v # "none" THEN AskRejected(s, v) /\ chat_sessions' = chat_sessions
                    ELSE Arrived # {} /\ chat_sessions' = chat_sessions
       /\ \A r \in Threads :
            (r.pc = "a_check" /\ Moves(r)) =>
                LET s == r.session_id
                    v == FirstViolated(TRUE, FALSE, r.question, extracted_text(s))
                IN  IF v # "none"
                    THEN /\ Returns(r)
                         /\ last' = Response("ask", s, 400, v)
                         /\ chat_sessions' = chat_sessions
                    ELSE /\ Arrived = {[r EXCEPT !.pc = "a_flag"]}
                         /\ chat_sessions'[s].messages =
                              Append(messages(s), UserMessage(r.question))]_vars

\* An idle session without a document was asked the empty question and
\* reported the missing question, not the missing document.
C10_Witness ==
    \E s \in Created :
        /\ last = Response("ask", s, 400, MissingQuestion)
        /\ extracted_text(s) = ""
        /\ ~is_processing(s)

(***************************************************************************)
(* C11: an /ask request of a session whose extracted_text is empty.  The   *)
(* text is read at line 137, after the checks of lines 128 and 134, so the *)
(* request is about a session "whose extracted_text is empty" both when it *)
(* arrives at such a session and when it reaches line 137 at one.          *)
(***************************************************************************)
\* The /ask request of thread r ends here with this 400 error and leaves
\* the session as it was.
AskEndsWith(r, body) ==
    /\ Returns(r)
    /\ last' = Response("ask", r.session_id, 400, body)
    /\ chat_sessions' = chat_sessions

\* C11 as stated: every /ask request of an existing session whose
\* extracted_text is empty is answered 400 with the missing-document error,
\* and no message is appended.
C11_EmptyTextAlwaysNoDocument ==
    [][/\ \A s \in Created :
            (AskArrives(s) /\ extracted_text(s) = "" /\ Arrived = {}) =>
                AskRejected(s, NoDocument) /\ chat_sessions' = chat_sessions
       /\ \A r \in Threads :
            (r.pc = "a_check" /\ Moves(r) /\ extracted_text(r.session_id) = "") =>
                AskEndsWith(r, NoDocument)]_vars

\* C11 amended: every /ask request of an existing session whose
\* extracted_text is empty is answered 400 and appends no message; the
\* error is the busy error when the session is processing at line 128, the
\* missing-question error when the question is empty, and the
\* missing-document error only otherwise.
C11_EmptyTextRejected ==
    [][/\ \A s \in Created :
            (AskArrives(s) /\ extracted_text(s) = "") =>
                /\ chat_sessions' = chat_sessions
                /\ IF is_processing(s) THEN AskRejected(s, Busy) ELSE Arrived # {}
       /\ \A r \in Threads :
            (r.pc = "a_check" /\ Moves(r) /\ extracted_text(r.session_id) = "") =>
                AskEndsWith(r, IF r.question = "" THEN MissingQuestion ELSE NoDocument)]_vars

\* A question was asked of an idle session without a document and was
\* answered with the missing-document error; the transcript is still empty.
C11_Witness ==
    \E s \in Created :
        /\ last = Response("ask", s, 400, NoDocument)
        /\ extracted_text(s) = ""
        /\ messages(s) = <<>>
        /\ ~is_processing(s)

(***************************************************************************)
(* C12: the result of find_text_around_timestamp, read back from the       *)
(* string it returns: the string is split at its newlines, every line is   *)
(* split into its bracketed timestamp and its text, and the timestamp is   *)
(* parsed as hours, minutes and seconds.                                   *)
(***************************************************************************)
\* The segment qualifies: its interval contains the target, or its start is
\* at most window seconds away from the target.
Qualifies(segment, target, window) ==
    \/ segment.start <= target /\ target <= segment.end
    \/ (segment.start - target) \in (0 - window)..window

\* The qualifying segments, in input order.
Qualifying(segments, target, window) ==
    LET Test(segment) == Qualifies(segment, target, window)
    IN  SelectSeq(segments, Test)

\* str.split(sep) on token sequences.
RECURSIVE SplitAt(_, _)
SplitAt(str, sep) ==
    IF \A i \in 1..Len(str) : str[i] # sep THEN <<str>>
    ELSE LET i == CHOOSE j \in 1..Len(str) :
                     str[j] = sep /\ \A k \in 1..(j - 1) : str[k] # sep
         IN  <<SubSeq(str, 1, i - 1)>> \o SplitAt(SubSeq(str, i + 1, Len(str)), sep)

IsDigit(c) == \E d \in 0..9 : Digits[d + 1] = c

IsNumber(field) == field # <<>> /\ \A i \in 1..Len(field) : IsDigit(field[i])

IsSigned(field) ==
    IsNumber(field) \/ (field # <<>> /\ field[1] = "-" /\ IsNumber(Tail(field)))

RECURSIVE Number(_)
Number(field) ==
    IF field = <<>> THEN 0
    ELSE Number(SubSeq(field, 1, Len(field) - 1)) * 10
            + (CHOOSE d \in 0..9 : Digits[d + 1] = field[Len(field)])

Signed(field) == IF field[1] = "-" THEN 0 - Number(Tail(field)) ELSE Number(field)

\* ts reads H:M:S with minutes and seconds below 60.
IsClock(ts) ==
    LET fields == SplitAt(ts, ":")
    IN  /\ Len(fields) = 3
        /\ IsSigned(fields[1]) /\ IsNumber(fields[2]) /\ IsNumber(fields[3])
        /\ Number(fields[2]) < 60 /\ Number(fields[3]) < 60

\* ts has the form HH:MM:SS.
IsHHMMSS(ts) ==
    /\ IsClock(ts)
    /\ \A i \in 1..3 : IsNumber(SplitAt(ts, ":")[i]) /\ Len(SplitAt(ts, ":")[i]) = 2

\* The number of seconds that the clock reading ts stands for.
ClockSeconds(ts) ==
    LET fields == SplitAt(ts, ":")
    IN  3600 * Signed(fields[1]) + 60 * Number(fields[2]) + Number(fields[3])

\* The line is "[HH:MM:SS] text" for the start and the text of the segment.
IsLineOf(line, segment) ==
    /\ Len(line) >= 4
    /\ line[1] = "[" /\ line[Len(line) - 2] = "]" /\ line[Len(line) - 1] = " "
    /\ line[Len(line)] = segment.text
    /\ LET ts == SubSeq(line, 2, Len(line) - 3)
       IN  IsHHMMSS(ts) /\ ClockSeconds(ts) = segment.start

\* The result is the no-content-found message, naming the target.
IsNoContentFound(result, target) ==
    /\ Len(result) >= 4
    /\ result[1] = "No content found around timestamp" /\ result[2] = " "
    /\ result[Len(result)] = "."
    /\ LET ts == SubSeq(result, 3, Len(result) - 1)
       IN  IsClock(ts) /\ ClockSeconds(ts) = target

\* C12: find_text_around_timestamp returns the no-timestamp-information
\* message iff the segment sequence is empty, the no-content-found message
\* naming the formatted target iff the sequence is non-empty and no segment
\* qualifies, and otherwise one line per qualifying segment, in input
\* order, each "[HH:MM:SS] text" with the start and text of its segment.
C12_LookupResult ==
    lookup.result # <<>> =>
        LET segments == lookup.segments
            target == lookup.target_seconds
            result == lookup.result
            qualifying == Qualifying(segments, target, lookup.window_seconds)
        IN  /\ (result = <<"No timestamp information available.">>) <=> (segments = <<>>)
            /\ IsNoContentFound(result, target) <=>
                   (segments # <<>> /\ qualifying = <<>>)
            /\ (segments # <<>> /\ qualifying # <<>>) =>
                   LET lines == SplitAt(result, "\n")
                   IN  /\ Len(lines) = Len(qualifying)
                       /\ \A k \in 1..Len(lines) : IsLineOf(lines[k], qualifying[k])

\* Segments {0,10,"a"} and {20,30,"b"}, target 5 and window 30: the first
\* segment qualifies by containment, the second by distance, and the result
\* is the two lines "[00:00:00] a" and "[00:00:20] b".
C12_Witness ==
    /\ lookup.segments = << [start |-> 0, end |-> 10, text |-> "a"],
                            [start |-> 20, end |-> 30, text |-> "b"] >>
    /\ lookup.target_seconds = 5
    /\ lookup.window_seconds = 30
    /\ lookup.result = << "[", "0", "0", ":", "0", "0", ":", "0", "0", "]", " ", "a", "\n",
                          "[", "0", "0", ":", "0", "0", ":", "2", "0", "]", " ", "b" >>

(***************************************************************************)
(* C13: the one assistant entry of an accepted question.  A question is    *)
(* accepted when line 141 appends its user entry; its answer is pending    *)
(* from then until its job has appended the answer (line 213) or the       *)
(* apology (line 224).                                                     *)
(***************************************************************************)
\* Places of an accepted question whose assistant entry is still to come.
PendingPcs == {"a_flag", "a_start", "g_read", "g_chat", "g_apology"}

PendingAnswers(s) == BagCardinality(ThreadsOf(s, PendingPcs))

ContainsSeq(str, sub) ==
    \E i \in 1..(Len(str) - Len(sub) + 1) : SubSeq(str, i, i + Len(sub) - 1) = sub

AssistantMessage(content) == [role |-> "assistant", content |-> content]

\* Every user entry has its assistant entry or a request or job that is
\* still to append it: no question gets none, and none gets two.
C13_OnePerQuestion ==
    \A s \in Created : Count(s, "user") = Count(s, "assistant") + PendingAnswers(s)

\* The steps of an answer job: the chat call appends the answer and goes on
\* to the success status, or records an error status naming the reason and
\* goes on to append the apology, which contains that reason.
C13_AnswerOrApology ==
    [][\A r \in Threads :
          (r.pc \in AnswerPcs /\ Moves(r)) =>
              LET s == r.session_id
                  appended(content) ==
                      chat_sessions'[s].messages =
                          Append(messages(s), AssistantMessage(content))
              IN  CASE r.pc = "g_chat" ->
                         \/ /\ \E a \in Answers : appended(<<a>>)
                            /\ Arrived = {[r EXCEPT !.pc = "g_ok"]}
                            /\ processing_status' = processing_status
                         \/ /\ chat_sessions' = chat_sessions
                            /\ \E e \in Errs :
                                 /\ Arrived = {[r EXCEPT !.pc = "g_apology", !.err = e]}
                                 /\ processing_status'[s] = StErrAnswer(e)
                                 /\ Contains(processing_status'[s], "Error")
                                 /\ ContainsSeq(processing_status'[s], e)
                   [] r.pc = "g_ok" ->
                         /\ chat_sessions' = chat_sessions
                         /\ processing_status'[s] = StAnswerOk
                         /\ ~Contains(processing_status'[s], "Error")
                         /\ Arrived = {[r EXCEPT !.pc = "g_finally"]}
                   [] r.pc = "g_apology" ->
                         /\ appended(Apology(r.err))
                         /\ r.err # <<>> /\ ContainsSeq(Apology(r.err), r.err)
                         /\ Arrived = {[r EXCEPT !.pc = "g_finally"]}
                   [] OTHER -> chat_sessions'[s].messages = messages(s)]_vars

\* C13: every accepted question gets exactly one assistant entry from its
\* answer job: the answer, followed by the success status, when the chat
\* call succeeds, or the apology containing the failure reason, preceded by
\* an error status, when it fails.
C13_OneAssistantMessage == []C13_OnePerQuestion /\ C13_AnswerOrApology

\* The question q1 was answered with a1, the status reports the success,
\* and the job has returned.
C13_Witness ==
    \E s \in Created :
        /\ messages(s) = <<UserMessage("q1"), AssistantMessage(<<"a1">>)>>
        /\ processing_status[s] = StAnswerOk
        /\ JobsInFlight(s) = 0 /\ HandlersInFlight(s) = 0
        /\ last.body = "success"

(***************************************************************************)
(* C14: an extraction job that ends with an error status.  The job's err   *)
(* local is set by the step that raises; the stores of the jobs are lines  *)
(* 87, 109 and 110, so a job has stored nothing exactly while it is at the *)
(* place of its collaborator calls (p_extract, v_extract).                 *)
(***************************************************************************)
ExtractionPcs == PdfPcs \cup VideoPcs

\* The step of job r in this transition is the one that raises.
Raises(r) ==
    /\ r.pc \in ExtractionPcs /\ Moves(r)
    /\ r.err = <<>>
    /\ \E r2 \in Arrived : r2.err # <<>>

\* C14: an extraction job that ends with an error status has left
\* extracted_text and segments as they were: whichever step raises, the job
\* has stored nothing before it and stores nothing in it.
C14_FailedJobStoresNothing ==
    [][\A r \in Threads :
          Raises(r) =>
              /\ r.pc \in {"p_extract", "v_extract"}
              /\ chat_sessions' = chat_sessions]_vars

(***************************************************************************)
(* C15: the segments of a session and its extracted_text.  The property is *)
(* stated of the stores of a job at a moment when it is the only job of    *)
(* its session.                                                            *)
(***************************************************************************)
\* The segments the session holds; a session without the key holds none.
SegmentsOf(s) ==
    IF "segments" \in DOMAIN chat_sessions[s] THEN chat_sessions[s].segments ELSE <<>>

\* C15: the segments of a session belong to the upload its extracted_text
\* comes from: once a PDF job has stored its text (line 87) the session
\* holds no segments, and once a video job has stored its segments (line
\* 110) the session holds the segments of that transcription.
C15_SegmentsOfSameUpload ==
    [][\A r \in Threads :
          (Moves(r) /\ JobsInFlight(r.session_id) = 1) =>
              LET s == r.session_id
              IN  /\ (r.pc = "p_extract" /\ Arrived = {[r EXCEPT !.pc = "p_ok"]}) =>
                         SegmentsOf(s)' = <<>>
                  /\ r.pc = "v_segs" => SegmentsOf(s)' = r.segments]_vars

(***************************************************************************)
(* C16: what a rejected /upload leaves behind.  The handler never restores *)
(* a status entry or a session field other than is_processing, so the      *)
(* entries are equal to their values before the request exactly when no    *)
(* step of the request changes them.  (is_processing, which the handler    *)
(* sets at line 44 and clears at line 75, is the subject of C5.)           *)
(***************************************************************************)
\* The arriving /upload request is answered at once with a 400 response.
UploadRejectedAtOnce ==
    /\ Arrives /\ Arrived = {}
    /\ last'.op = "upload" /\ last'.code = 400

\* The fields of the session other than is_processing are left as they are.
SessionKept(s) ==
    /\ chat_sessions'[s].messages = messages(s)
    /\ chat_sessions'[s].extracted_text = extracted_text(s)
    /\ SegmentsOf(s)' = SegmentsOf(s)

\* C16: "Processing your file..." is recorded only for uploads with an
\* accepted extension, and an /upload rejected with 400 (no file, empty
\* filename, no session, unsupported extension) changes neither the status
\* entry nor the messages, extracted_text and segments of the session.
C16_RejectedUploadChangesNothing ==
    [][/\ UploadRejectedAtOnce =>
            chat_sessions' = chat_sessions /\ processing_status' = processing_status
       /\ \A r \in Threads :
            (r.pc = "u_status" /\ Moves(r) /\ processing_status' # processing_status) =>
                file_extension(secure_filename(r.filename)) \in AllowedExtensions
       /\ \A r \in Threads :
            (UnsupportedUpload(r) /\ Moves(r)) =>
                /\ processing_status' = processing_status
                /\ SessionKept(r.session_id)
                /\ Returns(r) => last' = Response("upload", r.session_id, 400,
                                                  "Unsupported file type")]_vars

(***************************************************************************)
(* C17: the order of the transcript.  An assistant entry can be the reply  *)
(* to the user entry immediately before it only if the entry before it is  *)
(* a user entry, so the strict alternation is the part of the claim that   *)
(* the transcript alone decides.                                           *)
(***************************************************************************)
\* C17: in every state the transcript of a session alternates user,
\* assistant, user, assistant, ..., starting with a user entry.
C17_TranscriptAlternates ==
    \A s \in Created :
        \A i \in 1..Len(messages(s)) :
            messages(s)[i].role = IF i % 2 = 1 THEN "user" ELSE "assistant"

(***************************************************************************)
(* C18: the text an answer job reads.  A question is accepted at line 141  *)
(* and its job reads extracted_text at line 190; in between, the request   *)
(* or job of the question is at a_flag, a_start or g_read.  The text read  *)
(* is the text at the acceptance exactly when no step in between changes   *)
(* extracted_text of the session.                                          *)
(***************************************************************************)
\* A question of session s is accepted and its job has not read the text.
AcceptedUnread(s) ==
    \E r \in Threads : r.session_id = s /\ r.pc \in {"a_flag", "a_start", "g_read"}

\* C18: between the acceptance of a question and the read of line 190 no
\* step changes extracted_text of the session, so the answer job embeds the
\* text as it was when the question was accepted.
C18_TextStableUntilRead ==
    [][\A s \in Created :
          AcceptedUnread(s) => chat_sessions'[s].extracted_text = extracted_text(s)]_vars

====
